---- MODULE Spec2Model ----
(***************************************************************************)
(* Root cause discovery (python/funcs/root_cause_discovery_funcs.py).      *)
(*                                                                         *)
(* Numbers.  z-scores and thresholds are kept in tenths (the default range *)
(* 0.1, 5, 0.2 is 1, 50, 2), so every comparison z >= t, z <= t, z > t is  *)
(* the source's comparison.  Whitened values (Xtilde) are non-negative     *)
(* integers.  Scores are quotients of those: a score is a pair <<n, d>>    *)
(* in lowest terms, with the two IEEE values a division by zero yields:    *)
(* <<1, 0>> is inf and <<0, 0>> is nan.  Rounding is not modelled.         *)
(*                                                                         *)
(* Variable indices are 0..p-1 as in the source; lists are sequences, so   *)
(* the source's position k of a list is position k+1 of the sequence.      *)
(***************************************************************************)
EXTENDS Integers, Sequences, FiniteSets, TLC

VARIABLES
    pc,                 \* position of the running function, or how it ended
    z,                  \* z_vec / z / z_new: the z-score vector, [0..p-1 -> Nat]
    nshuffles,          \* nshuffles
    thre_min,           \* get_aberrant_thresholds: thre_min
    thre_max,           \* get_aberrant_thresholds: thre_max
    thre_seq,           \* get_aberrant_thresholds: thre_seq
    thre_new,           \* get_aberrant_thresholds: the returned thre_new
    threshold,          \* compute_permutations: threshold
    idx_abberent,       \* compute_permutations: idx_abberent
    idx_abberent_copy,  \* compute_permutations: idx_abberent_copy
    idx_normal,         \* compute_permutations: idx_normal
    i,                  \* compute_permutations: outer loop index
    s,                  \* compute_permutations: inner loop index (the source's _)
    perms,              \* compute_permutations: perms
    thresholds,         \* main / process_y_idx_rcd: thresholds
    t_idx,              \* main / process_y_idx_rcd: thresholds already taken
    perms_left,         \* main / process_y_idx_rcd: permutations of the current threshold not yet tried
    root_cause_score,   \* main / highdim: root_cause_score
    root_cause_score_y, \* process_y_idx_rcd: root_cause_score_y (<<>> while unbound)
    best_margin,        \* history: best margin seen with the response as arg-max
    y_idx,              \* process_y_idx_rcd: y_idx
    selected_idx,       \* process_y_idx_rcd: selected_idx / MB, the response last
    y_idx_z_threshold,  \* highdim: y_idx_z_threshold
    results,            \* highdim: the triples the finished tasks returned, by task
    select_len,         \* highdim: select_len
    ret                 \* the value returned (<<>> before the return)

vars == <<pc, z, nshuffles, thre_min, thre_max, thre_seq, thre_new, threshold,
          idx_abberent, idx_abberent_copy, idx_normal, i, s, perms, thresholds,
          t_idx, perms_left, root_cause_score, root_cause_score_y, best_margin,
          y_idx, selected_idx, y_idx_z_threshold, results, select_len, ret>>

thrVars == <<thre_min, thre_max, thre_seq, thre_new>>
permVars == <<threshold, idx_abberent, idx_abberent_copy, idx_normal, i, s, perms>>
sweepVars == <<thresholds, t_idx, perms_left>>
taskVars == <<root_cause_score_y, best_margin, y_idx, selected_idx>>
hdVars == <<y_idx_z_threshold, results, select_len>>

---------------------------------------------------------------------------
(* Bounds of the model *)

\* most variables of a z-score vector given to get_aberrant_thresholds
ThrVars == 3
\* largest z-score (tenths) given to get_aberrant_thresholds
ThrMaxZ == 4
\* largest thre_max (tenths) given to get_aberrant_thresholds
MaxThreMax == 5
\* largest thre_seq (tenths) given to get_aberrant_thresholds
MaxThreSeq == 2
\* most variables of a z-score vector given to compute_permutations
PermVars == 3
\* largest z-score and threshold (tenths) given to compute_permutations
PermMaxZ == 1
\* largest nshuffles given to compute_permutations
MaxShuffles == 2
\* most permutations one call of compute_permutations is asked for
MaxPerms == 6
\* most variables given to root_cause_discovery_main and process_y_idx_rcd
SweepVars == 3
\* largest z-score (tenths) given to root_cause_discovery_main
MainMaxZ == 4
\* largest nshuffles given to root_cause_discovery_main and process_y_idx_rcd
SweepShuffles == 1
\* largest entry of a whitened vector
MaxX == 3
\* most variables given to root_cause_discovery_highdim_parallel
HDVars == 3
\* largest z-score (tenths) given to root_cause_discovery_highdim_parallel
HDMaxZ == 2
\* largest y_idx_z_threshold (tenths)
MaxYThr == 1

---------------------------------------------------------------------------
(* Arithmetic of the scores *)

Inf == <<1, 0>>
NaN == <<0, 0>>
Zero == <<0, 1>>

RECURSIVE GCD(_, _)
GCD(a, b) == IF b = 0 THEN a ELSE GCD(b, a % b)

\* the quotient n / d of two non-negative integers, as a float division gives it
Quot(n, d) ==
    IF d = 0 THEN (IF n = 0 THEN NaN ELSE Inf)
    ELSE IF n = 0 THEN Zero
    ELSE LET g == GCD(n, d) IN <<n \div g, d \div g>>

\* a / b
Div(a, b) == Quot(a[1] * b[2], a[2] * b[1])

IsNaN(a) == a = NaN

\* a < b; every comparison with nan is false
Less(a, b) == ~IsNaN(a) /\ ~IsNaN(b) /\ a[1] * b[2] < b[1] * a[2]

\* a z-score kept in tenths, as a number
Real(zt) == Quot(zt, 10)

\* np.min over a non-empty set of scores none of which is nan
MinOf(S) == CHOOSE m \in S : \A x \in S : ~Less(x, m)

\* np.max over a non-empty set of integers
MaxInt(S) == CHOOSE m \in S : \A x \in S : x <= m

---------------------------------------------------------------------------
(* get_aberrant_thresholds *)

\* the default range of the callers, in tenths
ThreMinDefault == 1
ThreMaxDefault == 50
ThreSeqDefault == 2

\* np.arange(lo, hi, step), step > 0
Arange(lo, hi, step) ==
    LET n == IF hi > lo THEN (hi - lo + step - 1) \div step ELSE 0
    IN  [k \in 1..n |-> lo + (k - 1) * step]

\* np.sum(z_vec >= threshold)
CountGE(z_vec, t) == Cardinality({k \in DOMAIN z_vec : z_vec[k] >= t})

\* np.sum(z_vec <= threshold)
CountLE(z_vec, t) == Cardinality({k \in DOMAIN z_vec : z_vec[k] <= t})

RECURSIVE ThreLoopNoDedup(_, _, _, _)
ThreLoopNoDedup(z_vec, raw, count_temp, acc) ==
    IF raw = <<>> THEN acc
    ELSE IF CountGE(z_vec, Head(raw)) > 0
         THEN ThreLoopNoDedup(z_vec, Tail(raw), CountLE(z_vec, Head(raw)), Append(acc, Head(raw)))
         ELSE ThreLoopNoDedup(z_vec, Tail(raw), count_temp, acc)

\* the loop with the comparison against count_temp left out
get_aberrant_thresholds_nodedup(z_vec, lo, hi, step) ==
    ThreLoopNoDedup(z_vec, Arange(lo, hi, step), -1, <<>>)

\* the loop over thresholds_raw: what is left of it, count_temp, thre_new so far
RECURSIVE ThreLoop(_, _, _, _)
ThreLoop(z_vec, raw, count_temp, acc) ==
    IF raw = <<>> THEN acc
    ELSE IF CountGE(z_vec, Head(raw)) > 0 /\ CountLE(z_vec, Head(raw)) # count_temp
         THEN ThreLoop(z_vec, Tail(raw), CountLE(z_vec, Head(raw)), Append(acc, Head(raw)))
         ELSE ThreLoop(z_vec, Tail(raw), count_temp, acc)

get_aberrant_thresholds(z_vec, lo, hi, step) ==
    ThreLoop(z_vec, Arange(lo, hi, step), -1, <<>>)

\* the z-score vectors of at most n variables with entries in 0..m
ZVectors(n, m) == UNION {[0..(p - 1) -> 0..m] : p \in 1..n}

\* the state of the functions that are not running
IdleThr == thre_min = 0 /\ thre_max = 0 /\ thre_seq = 0 /\ thre_new = <<>>
IdlePerm ==
    /\ threshold = 0 /\ idx_abberent = <<>> /\ idx_abberent_copy = <<>>
    /\ idx_normal = <<>> /\ i = 0 /\ s = 0 /\ perms = <<>>
IdleSweep == thresholds = <<>> /\ t_idx = 0 /\ perms_left = 0
IdleTask ==
    root_cause_score_y = <<>> /\ best_margin = Zero /\ y_idx = 0 /\ selected_idx = <<>>
IdleHD == y_idx_z_threshold = 0 /\ results = <<>> /\ select_len = <<>>

\* a call get_aberrant_thresholds(z, thre_min, thre_max, thre_seq), thre_seq > 0
InitThr ==
    /\ pc = "thr_call"
    /\ z \in ZVectors(ThrVars, ThrMaxZ)
    /\ thre_min \in 0..MaxThreMax
    /\ thre_max \in 0..MaxThreMax
    /\ thre_seq \in 1..MaxThreSeq
    /\ thre_new = <<>>
    /\ nshuffles = 0 /\ root_cause_score = <<>> /\ ret = <<>>
    /\ IdlePerm /\ IdleSweep /\ IdleTask /\ IdleHD

ThrCall ==
    /\ pc = "thr_call"
    /\ thre_new' = get_aberrant_thresholds(z, thre_min, thre_max, thre_seq)
    /\ ret' = thre_new'
    /\ pc' = "thr_done"
    /\ UNCHANGED <<z, nshuffles, thre_min, thre_max, thre_seq, permVars, sweepVars,
                   root_cause_score, taskVars, hdVars>>

NextThr == ThrCall

SpecThr == InitThr /\ [][NextThr]_vars

---------------------------------------------------------------------------
(* compute_permutations *)

\* the members of a set of indices in ascending order
RECURSIVE Ascending(_)
Ascending(S) ==
    IF S = {} THEN <<>>
    ELSE LET m == CHOOSE x \in S : \A y \in S : x <= y
         IN  <<m>> \o Ascending(S \ {m})

Elems(list) == {list[k] : k \in 1..Len(list)}

\* [i for i, x in enumerate(z) if x >= threshold]
AberrantListGE(zv, t) == Ascending({k \in DOMAIN zv : zv[k] >= t})

\* idx_abberent = [i for i, x in enumerate(z) if x > threshold]
AberrantList(zv, t) == Ascending({k \in DOMAIN zv : zv[k] > t})

\* idx_normal = list(set(range(len(z))) - set(idx_abberent)); the list is
\* shuffled before it is first read, so the order the set gives is immaterial
NormalList(zv, ab) == Ascending(DOMAIN zv \ Elems(ab))

\* random.shuffle(list): every ordering of the list
Shuffles(list) ==
    {f \in [1..Len(list) -> Elems(list)] :
        \A x \in Elems(list) :
            Cardinality({k \in 1..Len(list) : f[k] = x})
              = Cardinality({k \in 1..Len(list) : list[k] = x})}

\* list.index(target): the first position holding target
IndexOf(list, target) ==
    CHOOSE k \in 1..Len(list) : list[k] = target /\ \A j \in 1..(k - 1) : list[j] # target

\* list[0] = list[index], the other half of the exchange forgotten
SwapFirstOverwrite(list, index) == [list EXCEPT ![1] = list[index]]

\* list[0], list[index] = list[index], list[0]
SwapFirst(list, index) == [list EXCEPT ![1] = list[index], ![index] = list[1]]

\* sorted(perm) == list(range(0, p)), the assertion of root_cause_discovery
IsPermutationVector(perm, p) ==
    SortSeq(perm, LAMBDA a, b : a < b) = [k \in 1..p |-> k - 1]

\* len(permutations) for one threshold: one permutation per aberrant index and shuffle
NumPermutations(zv, t, k) == Len(AberrantList(zv, t)) * k

\* a call compute_permutations(z, threshold, nshuffles)
InitPerm ==
    /\ pc = "perm_call"
    /\ z \in ZVectors(PermVars, PermMaxZ)
    /\ threshold \in 0..PermMaxZ
    /\ nshuffles \in 0..MaxShuffles
    /\ NumPermutations(z, threshold, nshuffles) <= MaxPerms
    /\ idx_abberent = <<>> /\ idx_abberent_copy = <<>> /\ idx_normal = <<>>
    /\ i = 0 /\ s = 0 /\ perms = <<>>
    /\ root_cause_score = <<>> /\ ret = <<>>
    /\ IdleThr /\ IdleSweep /\ IdleTask /\ IdleHD

\* lines 56-61
PermPartition ==
    /\ pc = "perm_call"
    /\ idx_abberent' = AberrantList(z, threshold)
    /\ idx_abberent_copy' = idx_abberent'
    /\ idx_normal' = NormalList(z, idx_abberent')
    /\ perms' = <<>>
    /\ i' = 0 /\ s' = 0
    /\ pc' = "perm_loop"
    /\ UNCHANGED <<z, nshuffles, threshold, thrVars, sweepVars, root_cause_score,
                   taskVars, hdVars, ret>>

\* lines 63-69: one pass of the inner loop
PermShuffle ==
    /\ pc = "perm_loop"
    /\ i < Len(idx_abberent_copy)
    /\ s < nshuffles
    /\ \E n \in Shuffles(idx_normal), a \in Shuffles(idx_abberent) :
        LET target == idx_abberent_copy[i + 1]
            index == IndexOf(a, target)
            swapped == SwapFirst(a, index)
        IN  /\ idx_normal' = n
            /\ idx_abberent' = swapped
            /\ perms' = Append(perms, n \o swapped)
    /\ IF s + 1 = nshuffles THEN i' = i + 1 /\ s' = 0 ELSE i' = i /\ s' = s + 1
    /\ UNCHANGED <<pc, z, nshuffles, threshold, idx_abberent_copy, thrVars, sweepVars,
                   root_cause_score, taskVars, hdVars, ret>>

\* line 70, reached when the outer loop is over (at once when nshuffles is 0)
PermReturn ==
    /\ pc = "perm_loop"
    /\ (i = Len(idx_abberent_copy) \/ nshuffles = 0)
    /\ ret' = perms
    /\ pc' = "perm_done"
    /\ UNCHANGED <<z, nshuffles, permVars, thrVars, sweepVars, root_cause_score,
                   taskVars, hdVars>>

NextPerm == PermPartition \/ PermShuffle \/ PermReturn

SpecPerm == InitPerm /\ [][NextPerm]_vars

---------------------------------------------------------------------------
(* root_cause_discovery and the margin statistic *)

\* the abs(X_tilde) root_cause_discovery can return for p variables; the
\* covariance, the Cholesky factor and the solve are not modelled
XtildeOutcomes(p) == [0..(p - 1) -> 0..MaxX]

\* sorted(Xtilde)
Sorted(X) == SortSeq([n \in 1..Cardinality(DOMAIN X) |-> X[n - 1]], LAMBDA a, b : a < b)

\* (sorted_X[-1] - sorted_X[-2]) / sorted_X[-2], for at least two variables
OneNonZero_quantification(X) ==
    LET sorted_X == Sorted(X)
        n == Len(sorted_X)
    IN  Quot(sorted_X[n] - sorted_X[n - 1], sorted_X[n - 1])

\* np.argmax(Xtilde): the first index holding the largest value
ArgMax(X) ==
    CHOOSE k \in DOMAIN X :
        /\ \A j \in DOMAIN X : X[j] <= X[k]
        /\ \A j \in DOMAIN X : j < k => X[j] < X[k]

---------------------------------------------------------------------------
(* The fallback scores *)

\* np.where(root_cause_score == 0)[0]
Idx2(score) == {k \in DOMAIN score : score[k] = Zero}

\* np.where(root_cause_score != 0)[0]
Idx1(score) == {k \in DOMAIN score : score[k] # Zero}

\* max_RC_score_idx2 = np.min(root_cause_score[idx1]) / 2, idx1 not empty
MaxRCScoreIdx2(score) == Div(MinOf({score[k] : k \in Idx1(score)}), <<2, 1>>)

\* root_cause_score[idx2] = z[idx2] / (np.max(z[idx2]) / max_RC_score_idx2)
FallbackScores(score, zv) ==
    LET idx2 == Idx2(score)
        scale == Div(Real(MaxInt({zv[k] : k \in idx2})), MaxRCScoreIdx2(score))
    IN  [k \in DOMAIN score |-> IF k \in idx2 THEN Div(Real(zv[k]), scale) ELSE score[k]]

\* the z-scores of the filtered candidates alone
RawZScoresOfCandidates(zv, thr) ==
    [k \in DOMAIN zv |-> IF zv[k] > thr THEN Real(zv[k]) ELSE Zero]

\* root_cause_score = z (thr is y_idx_z_threshold, which the assignment does not read)
RawZScores(zv, thr) == [k \in DOMAIN zv |-> Real(zv[k])]

---------------------------------------------------------------------------
(* root_cause_discovery_main, thresholds=None *)

InitMain ==
    /\ pc = "main_call"
    /\ z \in ZVectors(SweepVars, MainMaxZ)
    /\ nshuffles \in 0..SweepShuffles
    /\ root_cause_score = <<>> /\ ret = <<>>
    /\ IdleThr /\ IdlePerm /\ IdleSweep /\ IdleTask /\ IdleHD

\* lines 108-116
MainStart ==
    /\ pc = "main_call"
    /\ thresholds' = get_aberrant_thresholds(z, ThreMinDefault, ThreMaxDefault, ThreSeqDefault)
    /\ root_cause_score' = [k \in DOMAIN z |-> Zero]
    /\ t_idx' = 0 /\ perms_left' = 0
    /\ pc' = "main_loop"
    /\ UNCHANGED <<z, nshuffles, thrVars, permVars, taskVars, hdVars, ret>>

\* lines 117-118: the next threshold and its permutations
MainThreshold ==
    /\ pc = "main_loop"
    /\ perms_left = 0
    /\ t_idx < Len(thresholds)
    /\ t_idx' = t_idx + 1
    /\ perms_left' = NumPermutations(z, thresholds[t_idx + 1], nshuffles)
    /\ UNCHANGED <<pc, z, nshuffles, thresholds, root_cause_score, thrVars, permVars,
                   taskVars, hdVars, ret>>

\* lines 123-129: one permutation tried; with one variable sorted_X[-2] does not exist
MainPerm ==
    /\ pc = "main_loop"
    /\ perms_left > 0
    /\ \E Xtilde \in XtildeOutcomes(Cardinality(DOMAIN z)) :
        IF Cardinality(DOMAIN z) < 2
        THEN pc' = "IndexError" /\ UNCHANGED <<root_cause_score, perms_left>>
        ELSE LET q == OneNonZero_quantification(Xtilde)
                 max_index == ArgMax(Xtilde)
             IN  /\ root_cause_score' =
                        IF Less(root_cause_score[max_index], q)
                        THEN [root_cause_score EXCEPT ![max_index] = q]
                        ELSE root_cause_score
                 /\ perms_left' = perms_left - 1
                 /\ pc' = pc
    /\ UNCHANGED <<z, nshuffles, thresholds, t_idx, thrVars, permVars, taskVars, hdVars, ret>>

\* lines 94-100: the factorization fails and the exception leaves the function
MainPermRaises ==
    /\ pc = "main_loop"
    /\ perms_left > 0
    /\ pc' = "LinAlgError"
    /\ UNCHANGED <<z, nshuffles, sweepVars, root_cause_score, thrVars, permVars,
                   taskVars, hdVars, ret>>

\* lines 131-137; np.min of an empty array raises ValueError
MainFallback ==
    /\ pc = "main_loop"
    /\ perms_left = 0
    /\ t_idx = Len(thresholds)
    /\ IF Idx2(root_cause_score) = {}
       THEN /\ ret' = root_cause_score
            /\ pc' = "main_done"
            /\ UNCHANGED root_cause_score
       ELSE IF Idx1(root_cause_score) = {}
       THEN /\ pc' = "ValueError"
            /\ UNCHANGED <<root_cause_score, ret>>
       ELSE /\ root_cause_score' = FallbackScores(root_cause_score, z)
            /\ ret' = root_cause_score'
            /\ pc' = "main_done"
    /\ UNCHANGED <<z, nshuffles, sweepVars, thrVars, permVars, taskVars, hdVars>>

NextMain == MainStart \/ MainThreshold \/ MainPerm \/ MainPermRaises \/ MainFallback

SpecMain == InitMain /\ [][NextMain]_vars

---------------------------------------------------------------------------
(* process_y_idx_rcd *)

\* z-scores (tenths) of the variables given to process_y_idx_rcd
TaskZVals == {0, 2, 16, 18}

\* selected_idx of reduce_dimension, or MB of the precision matrix: the chosen
\* predictors in index order, then y_idx
SelectedIdx(MB, y) == Ascending(MB) \o <<y>>

\* z_new = zscore(X_obs_new, X_int_sample_new): the z-scores of the selected columns
ZNew(zv, sel) == [j \in 0..(Len(sel) - 1) |-> zv[sel[j + 1]]]

InitTask ==
    /\ pc = "task_call"
    /\ z \in UNION {[0..(p - 1) -> TaskZVals] : p \in 1..SweepVars}
    /\ nshuffles \in 0..SweepShuffles
    /\ y_idx \in DOMAIN z
    /\ \E MB \in SUBSET (DOMAIN z \ {y_idx}) : selected_idx = SelectedIdx(MB, y_idx)
    /\ root_cause_score_y = <<>> /\ best_margin = Zero
    /\ root_cause_score = <<>> /\ ret = <<>>
    /\ IdleThr /\ IdlePerm /\ IdleSweep /\ IdleHD

\* lines 183-196
TaskStart ==
    /\ pc = "task_call"
    /\ thresholds' = get_aberrant_thresholds(ZNew(z, selected_idx), ThreMinDefault,
                                             ThreMaxDefault, ThreSeqDefault)
    /\ t_idx' = 0 /\ perms_left' = 0
    /\ pc' = "task_loop"
    /\ UNCHANGED <<z, nshuffles, root_cause_score, thrVars, permVars, taskVars, hdVars, ret>>

\* lines 197-203: the next threshold, its permutations, root_cause_score_y = 0
TaskThreshold ==
    /\ pc = "task_loop"
    /\ perms_left = 0
    /\ t_idx < Len(thresholds)
    /\ t_idx' = t_idx + 1
    /\ perms_left' = NumPermutations(ZNew(z, selected_idx), thresholds[t_idx + 1], nshuffles)
    /\ root_cause_score_y' = Zero
    /\ UNCHANGED <<pc, z, nshuffles, thresholds, root_cause_score, best_margin, y_idx,
                   selected_idx, thrVars, permVars, hdVars, ret>>

\* lines 204-212: one permutation tried
TaskPerm ==
    /\ pc = "task_loop"
    /\ perms_left > 0
    /\ \E Xtilde \in XtildeOutcomes(Len(selected_idx)) :
        IF Len(selected_idx) < 2
        THEN pc' = "IndexError" /\ UNCHANGED <<root_cause_score_y, best_margin, perms_left>>
        ELSE LET q == OneNonZero_quantification(Xtilde)
                 max_index == ArgMax(Xtilde)
                 response == max_index = Len(selected_idx) - 1
             IN  /\ root_cause_score_y' =
                        IF response /\ Less(root_cause_score_y, q)
                        THEN q ELSE root_cause_score_y
                 /\ best_margin' =
                        IF response /\ Less(best_margin, q) THEN q ELSE best_margin
                 /\ perms_left' = perms_left - 1
                 /\ pc' = pc
    /\ UNCHANGED <<z, nshuffles, thresholds, t_idx, root_cause_score, y_idx, selected_idx,
                   thrVars, permVars, hdVars, ret>>

\* lines 94-100: the factorization fails and the exception leaves the function
TaskPermRaises ==
    /\ pc = "task_loop"
    /\ perms_left > 0
    /\ pc' = "LinAlgError"
    /\ UNCHANGED <<z, nshuffles, sweepVars, root_cause_score, thrVars, permVars,
                   taskVars, hdVars, ret>>

\* line 214; root_cause_score_y is bound only inside the loop over thresholds
TaskReturn ==
    /\ pc = "task_loop"
    /\ perms_left = 0
    /\ t_idx = Len(thresholds)
    /\ IF root_cause_score_y = <<>>
       THEN pc' = "UnboundLocalError" /\ UNCHANGED ret
       ELSE /\ ret' = <<y_idx, root_cause_score_y, Len(selected_idx)>>
            /\ pc' = "task_done"
    /\ UNCHANGED <<z, nshuffles, sweepVars, root_cause_score, thrVars, permVars,
                   taskVars, hdVars>>

NextTask == TaskStart \/ TaskThreshold \/ TaskPerm \/ TaskPermRaises \/ TaskReturn

SpecTask == InitTask /\ [][NextTask]_vars

---------------------------------------------------------------------------
(* root_cause_discovery_highdim_parallel *)

\* y_indices = np.where(z > y_idx_z_threshold)[0]
YIndices(zv, thr) == Ascending({k \in DOMAIN zv : zv[k] > thr})

\* the scores a task can return: zero, or a margin that exceeded zero
TaskScores == {Zero, <<1, 2>>, <<2, 1>>, Inf}

\* the subset sizes a task can return for p variables
TaskLengths(p) == {1, p}

\* the index a result is written to: its position in the list of results
WriteIndexByPosition(triple, pos) == pos - 1

\* the index a result is written to: root_cause_score[y_idx] = score
WriteIndex(triple, pos) == triple[1]

\* lines 234-236, from the pos-th result on
RECURSIVE Reassemble(_, _, _, _)
Reassemble(list, pos, score, len) ==
    IF pos > Len(list) THEN <<score, len>>
    ELSE LET k == WriteIndex(list[pos], pos)
         IN  Reassemble(list, pos + 1,
                        [score EXCEPT ![k] = list[pos][2]],
                        [len EXCEPT ![k] = list[pos][3]])

InitHD ==
    /\ pc = "hd_call"
    /\ z \in ZVectors(HDVars, HDMaxZ)
    /\ y_idx_z_threshold \in 1..MaxYThr
    /\ nshuffles = 1
    /\ results = <<>> /\ select_len = <<>>
    /\ root_cause_score = <<>> /\ ret = <<>>
    /\ IdleThr /\ IdlePerm /\ IdleSweep /\ IdleTask

\* lines 225-231: one task per candidate is handed to the workers
HDDispatch ==
    /\ pc = "hd_call"
    /\ results' = <<>>
    /\ pc' = "hd_parallel"
    /\ UNCHANGED <<z, nshuffles, y_idx_z_threshold, select_len, root_cause_score,
                   thrVars, permVars, sweepVars, taskVars, ret>>

\* a task that has not finished returns its triple (process_y_idx_rcd, line 214)
HDTaskReturns ==
    /\ pc = "hd_parallel"
    /\ \E y \in Elems(YIndices(z, y_idx_z_threshold)) \ DOMAIN results :
       \E score \in TaskScores, len \in TaskLengths(Cardinality(DOMAIN z)) :
           results' = (y :> <<y, score, len>>) @@ results
    /\ UNCHANGED <<pc, z, nshuffles, y_idx_z_threshold, select_len, root_cause_score,
                   thrVars, permVars, sweepVars, taskVars, ret>>

\* a task that has not finished raises; Parallel passes the exception on to
\* the caller and the call ends without a result (lines 230-231)
HDTaskRaises ==
    /\ pc = "hd_parallel"
    /\ Elems(YIndices(z, y_idx_z_threshold)) \ DOMAIN results # {}
    /\ pc' = "hd_raised"
    /\ UNCHANGED <<z, nshuffles, hdVars, root_cause_score, thrVars, permVars, sweepVars,
                   taskVars, ret>>

\* lines 232-236: all tasks have returned; the results come in the order of y_indices
HDReassemble ==
    /\ pc = "hd_parallel"
    /\ DOMAIN results = Elems(YIndices(z, y_idx_z_threshold))
    /\ LET y_indices == YIndices(z, y_idx_z_threshold)
           list == [n \in 1..Len(y_indices) |-> results[y_indices[n]]]
           out == Reassemble(list, 1, [k \in DOMAIN z |-> Zero], [k \in DOMAIN z |-> 0])
       IN  root_cause_score' = out[1] /\ select_len' = out[2]
    /\ pc' = "hd_fallback"
    /\ UNCHANGED <<z, nshuffles, y_idx_z_threshold, results, thrVars, permVars, sweepVars,
                   taskVars, ret>>

\* lines 238-248
HDFallback ==
    /\ pc = "hd_fallback"
    /\ root_cause_score' =
          IF Idx2(root_cause_score) = {} THEN root_cause_score
          ELSE IF Idx1(root_cause_score) # {} THEN FallbackScores(root_cause_score, z)
          ELSE RawZScores(z, y_idx_z_threshold)
    /\ ret' = <<root_cause_score', select_len>>
    /\ pc' = "hd_done"
    /\ UNCHANGED <<z, nshuffles, hdVars, thrVars, permVars, sweepVars, taskVars>>

NextHD == HDDispatch \/ HDTaskReturns \/ HDTaskRaises \/ HDReassemble \/ HDFallback

SpecHD == InitHD /\ [][NextHD]_vars

---------------------------------------------------------------------------
(* Claims about get_aberrant_thresholds and compute_permutations *)

\* the variables at or below a threshold
AtOrBelow(t) == {k \in DOMAIN z : z[k] <= t}

\* the variables above a threshold
Above(t) == {k \in DOMAIN z : z[k] > t}

\* C1: every permutation compute_permutations has appended holds every index
\* of 0..p-1 exactly once, whatever the shuffles gave, and so passes the
\* assertion sorted(perm) == range(p) of root_cause_discovery.
C1_PermutationsAreBijections ==
    \A n \in 1..Len(perms) :
        /\ Len(perms[n]) = Cardinality(DOMAIN z)
        /\ \A k \in DOMAIN z : Cardinality({q \in 1..Len(perms[n]) : perms[n][q] = k}) = 1
        /\ IsPermutationVector(perms[n], Cardinality(DOMAIN z))

\* a finished call with two aberrant and one normal index whose last
\* permutation needed a real exchange and is not the identity
C1_Witness ==
    /\ pc = "perm_done"
    /\ Cardinality(Above(threshold)) >= 2
    /\ AtOrBelow(threshold) # {}
    /\ Len(perms) >= 2
    /\ perms[Len(perms)] # Ascending(DOMAIN z)

\* the layout C2 gives the n-th permutation
C2_Layout(n) ==
    LET ab == Above(threshold)
        no == AtOrBelow(threshold)
        a == ((n - 1) \div nshuffles) + 1
    IN  /\ Len(perms[n]) = Cardinality(no) + Cardinality(ab)
        /\ a <= Cardinality(ab)
        /\ {perms[n][q] : q \in 1..Cardinality(no)} = no
        /\ {perms[n][q] : q \in (Cardinality(no) + 1)..Len(perms[n])} = ab
        /\ perms[n][Cardinality(no) + 1] = Ascending(ab)[a]

C2_State ==
    /\ \A n \in 1..Len(perms) : C2_Layout(n)
    /\ pc = "perm_done" =>
         /\ ret = perms
         /\ Len(ret) = Cardinality(Above(threshold)) * nshuffles
         /\ (Above(threshold) = {} => ret = <<>>)

C2_Step == \A n \in 1..Len(perms) : Len(perms') >= n /\ perms'[n] = perms[n]

\* C2: compute_permutations returns |aberrant| * k permutations; the k
\* permutations of the a-th aberrant index (in index order) are consecutive,
\* hold the normal indices in the first |normal| positions, the aberrant ones
\* in the rest, and the target first in the aberrant block; a permutation once
\* appended never changes; with no aberrant index the result is empty.
C2_PermutationLayout == []C2_State /\ [][C2_Step]_vars

\* a finished call with k = 2, two aberrant indices and a normal one: the
\* third permutation puts the second aberrant index first in its block
C2_Witness ==
    /\ pc = "perm_done"
    /\ nshuffles = 2
    /\ Cardinality(Above(threshold)) = 2
    /\ AtOrBelow(threshold) # {}
    /\ Len(ret) = 4
    /\ ret[1][Cardinality(AtOrBelow(threshold)) + 1] = Ascending(Above(threshold))[1]
    /\ ret[3][Cardinality(AtOrBelow(threshold)) + 1] = Ascending(Above(threshold))[2]

\* C3: the thresholds get_aberrant_thresholds returns ascend, and no two of
\* them, consecutive or not, split the variables the same way by z <= t.
C3_ThresholdsAscendDistinct ==
    pc = "thr_done" =>
        \A a, b \in 1..Len(ret) :
            a < b => /\ ret[a] < ret[b]
                     /\ AtOrBelow(ret[a]) # AtOrBelow(ret[b])

\* a call that kept two thresholds and dropped a raw one between them, which
\* splits the variables as the first kept one does
C3_Witness ==
    /\ pc = "thr_done"
    /\ Len(ret) >= 2
    /\ thre_seq = 1
    /\ ret[2] - ret[1] >= 2

\* C4: every threshold get_aberrant_thresholds keeps has a non-empty aberrant
\* set {i : z_i > t}, the set compute_permutations builds.
C4_KeptThresholdHasAberrant ==
    pc = "thr_done" =>
        \A k \in 1..Len(ret) : AberrantList(z, ret[k]) # <<>>

---------------------------------------------------------------------------
(* Claims about the sweeps and the high-dimensional path *)

\* C5: the score process_y_idx_rcd returns is the best margin over all
\* thresholds and all permutations at which the response was the arg-max
\* (zero if it never was); a margin of an earlier threshold is not lost.
C5_ReturnsBestMargin ==
    pc = "task_done" => ret[2] = best_margin

\* half the smallest non-zero score
C6_Half(score) == Div(MinOf({score[k] : k \in Idx1(score)}), <<2, 1>>)

\* the fallback step of root_cause_discovery_main, taken with a non-zero score
C6_Step ==
    (pc = "main_loop" /\ pc' = "main_done" /\ Idx1(root_cause_score) # {}) =>
        LET zero == Idx2(root_cause_score)
            rest == Idx1(root_cause_score)
            half == C6_Half(root_cause_score)
        IN  /\ \A k \in rest : root_cause_score'[k] = root_cause_score[k]
            /\ zero # {} =>
                 \E k \in zero :
                    /\ root_cause_score'[k] = half
                    /\ \A j \in zero : ~Less(root_cause_score'[k], root_cause_score'[j])
            /\ \A k \in zero : \A j \in rest :
                 Less(root_cause_score'[k], root_cause_score'[j])
            /\ \A k \in zero : \A j \in zero :
                 /\ z[k] < z[j] => Less(root_cause_score'[k], root_cause_score'[j])
                 /\ z[k] = z[j] => root_cause_score'[k] = root_cause_score'[j]

\* C6: when some variable has a non-zero score after the sweep, every
\* zero-scored variable gets a fallback proportional to its z-score, the
\* largest fallback being half the smallest non-zero score; the fallbacks lie
\* strictly below every scored variable, are ordered as the z-scores are, and
\* the scored entries are unchanged.
C6_FallbackBelowScored == [][C6_Step]_vars

\* C7: when every variable ends the sweep of root_cause_discovery_main with
\* score zero, the function returns the raw z-score vector and does not fail.
C7_AllZeroReturnsRawZ ==
    (pc \in {"main_done", "ValueError"} /\ \A k \in DOMAIN z : root_cause_score[k] = Zero) =>
        (pc = "main_done" /\ ret = [k \in DOMAIN z |-> Real(z[k])])

\* every task has returned and none with a positive score
C8_NoPositiveScore ==
    /\ pc = "hd_done"
    /\ \A y \in DOMAIN results : results[y][2] = Zero

\* C8 as stated: with no positively scored candidate the returned scores are
\* the raw z-scores at the candidates and zero at the other variables.
C8_CandidatesOnly ==
    C8_NoPositiveScore =>
        ret[1] = [k \in DOMAIN z |->
                     IF z[k] > y_idx_z_threshold THEN Real(z[k]) ELSE Zero]

\* C8, amended: with no positively scored candidate the returned scores are
\* the raw z-scores at every variable, candidate or not.
C8_RawZEverywhere ==
    C8_NoPositiveScore => ret[1] = [k \in DOMAIN z |-> Real(z[k])]

\* a return with a zero-scored candidate and a non-candidate of non-zero z-score
C8_Witness ==
    /\ C8_NoPositiveScore
    /\ DOMAIN results # {}
    /\ \E k \in DOMAIN z : z[k] > 0 /\ z[k] <= y_idx_z_threshold

C9_Candidates == {k \in DOMAIN z : z[k] > y_idx_z_threshold}

\* C9: one task per candidate, each returning its own triple; whatever the
\* order in which the tasks finish, the reassembled scores and subset sizes
\* are those of the triples, each at its own index, and a non-candidate keeps
\* score zero (before the fallback) and subset size zero.
C9_ReassemblyByIndex ==
    /\ DOMAIN results \subseteq C9_Candidates
    /\ \A y \in DOMAIN results : results[y][1] = y
    /\ pc \in {"hd_fallback", "hd_done"} =>
         /\ DOMAIN results = C9_Candidates
         /\ \A k \in DOMAIN z :
              select_len[k] = IF k \in C9_Candidates THEN results[k][3] ELSE 0
    /\ pc = "hd_fallback" =>
         \A k \in DOMAIN z :
              root_cause_score[k] = IF k \in C9_Candidates THEN results[k][2] ELSE Zero
    /\ pc = "hd_done" =>
         /\ ret[2] = select_len
         /\ \A k \in C9_Candidates : results[k][2] # Zero => ret[1][k] = results[k][2]

\* a return with a non-candidate at index 0 and two candidates after it whose
\* scores and subset sizes differ
C9_Witness ==
    /\ pc = "hd_done"
    /\ 0 \notin C9_Candidates
    /\ \E a, b \in C9_Candidates :
         /\ a < b
         /\ results[a][2] # Zero /\ results[b][2] # Zero
         /\ results[a][2] # results[b][2]
         /\ results[a][3] # results[b][3]

\* C10: a failing subtask does not end the call: the function still returns
\* the score vector with the other candidates' scores.
C10_SubtaskFailureIsolated ==
    pc = "hd_raised" => ret # <<>>

====
